---- MODULE Spec2Model ----
(***************************************************************************)
(* Request dispatch of src/listen.ts: the route registry (handleRoute,     *)
(* getRoute), the middleware list (useMiddleware), the channel registry    *)
(* (activeSocketConnections) and the per-connection handler passed to      *)
(* serve() by listenAndServe; and the manifest indexer of                  *)
(* src/unnamed/part_000 (pathToPattern, indexRoutes, indexStatic).         *)
(*                                                                         *)
(* Strings the code inspects character by character (hrefs, route paths)   *)
(* are sequences of one-character strings; the origin of a URL is a single *)
(* token because no code looks inside it.                                  *)
(*                                                                         *)
(* RegistrySpec fills the route registry and calls getRoute on it, over    *)
(* every method, pathname and query string of the input sets.              *)
(* Spec is the server: routes and middleware are registered, the server is *)
(* started, a request is received and dispatched. What a route handler or  *)
(* a middleware does is open: while it runs it performs any of the         *)
(* operations of the context, up to MaxOps of them, then returns or throws;*)
(* whoever kept the context performs them after the response was returned. *)
(* Every action is one synchronous stretch of the code: between two of     *)
(* them lies an await.                                                     *)
(* LiveSpec is Spec with the fairness of the event loop: a callback that is*)
(* awaited settles, by returning or by throwing.                           *)
(* ChannelSpec is the channel registry under two connections handled at the*)
(* same time: their handlers obtain sockets, join channels and broadcast in*)
(* any interleaving, and the sockets open and close. A socket is connecting*)
(* until the response of its upgrade was returned.                         *)
(* ManifestSpec indexes one file of ./routes or of ./static, over the      *)
(* pathnames, exports, ignore matches and entity tags of the input sets, and*)
(* sends a GET to the handler registered for a static file.                *)
(***************************************************************************)
EXTENDS Integers, Sequences, FiniteSets, TLC

\* ------------------------------------------------------------------ bounds
MaxRoutes == 2
MaxPathLen == 3
MaxOps == 2
MaxTraffic == 4
MaxDepth == 2
MaxExports == 2
MaxTagLen == 3

\* ------------------------------------------------------------- input sets
\* const RequestMethods = ["POST", "GET", "PUT", "PATCH", "DELETE", "*"]
RequestMethods == {"POST", "GET", "PUT", "PATCH", "DELETE", "*"}
\* methods a client puts on the request line: "*" is a valid method token,
\* TRACE stands for every method outside RequestMethods
WireMethods == RequestMethods \cup {"TRACE"}
\* middleware callbacks
Middlewares == {"m1", "m2"}
\* the requests served, each by its own call of the connection handler
Requests == {1}
\* channel names passed to join
JoinNames == {"room1"}
\* the requests and the channel names of the channel specification
ChannelRequests == {1, 2}
ChannelNames == {"room1", "room2"}
\* arguments of sendStatus
SentStatuses == {403}
\* arguments of inferContentType: one contentType() resolves, one it does not
Lookups == {"html", "zzz"}
\* arguments of markForDownload
Filenames == {"f"}
\* outcomes of decoding the request body: no body ("undefined"), or the
\* bodyType of the content-type branch taken
BodyTypes == {"undefined", "json"}
\* methods routes are registered with
RouteMethods == {"GET", "*"}
\* paths routes are registered with: "/a" and "/:p"
RoutePaths == {<<"/", "a">>, <<"/", ":", "p">>}
\* route handlers
Handlers == {"h1", "h2"}
\* the routes the dispatch specification registers: GET /a and ANY /:p
DispatchRoutes ==
  {[method |-> "GET", path |-> <<"/", "a">>, callback |-> "h1"],
   [method |-> "*", path |-> <<"/", ":", "p">>, callback |-> "h2"]}

Origin == "http://localhost:3000"

RECURSIVE SeqsUpTo(_, _)
SeqsUpTo(S, n) ==
  IF n = 0 THEN {<<>>}
  ELSE LET shorter == SeqsUpTo(S, n - 1)
       IN  shorter \cup {Append(s, c) : s \in shorter, c \in S}

\* pathnames of request URLs: "/" followed by up to MaxPathLen - 1 characters
Pathnames == {<<"/">> \o s : s \in SeqsUpTo({"/", "a"}, MaxPathLen - 1)}
\* query strings of request URLs: none, or "?q"
Searches == {<<>>, <<"?", "q">>}

\* the request URLs the dispatch specification draws: "//" and "/a", no query
ShortPathnames == {p \in Pathnames : Len(p) = 2}

\* url.href of new URL(req.url)
Href(pathname, search) == <<Origin>> \o pathname \o search

Undefined == [found |-> FALSE]

VARIABLES routes, lastLookup, middleware, activeSocketConnections, listening,
          ctx, nextSocket, hooks, indexed, reply
manifestVars == <<hooks, indexed, reply>>
vars == <<routes, lastLookup, middleware, activeSocketConnections, listening,
          ctx, nextSocket, manifestVars>>
dispatchVars == <<middleware, activeSocketConnections, listening, ctx,
                  nextSocket>>
serverVars == <<routes, lastLookup, dispatchVars>>

\* ------------------------------------------------------------ URL helpers
\* href.replaceAll(/\/$/g, ""): removes a "/" that ends the string
StripTrailingSlash(href) ==
  IF Len(href) > 0 /\ href[Len(href)] = "/"
  THEN SubSeq(href, 1, Len(href) - 1)
  ELSE href

\* index of the first "?" of s at or after i, Len(s) + 1 when there is none
RECURSIVE FirstQuery(_, _)
FirstQuery(s, i) ==
  IF i > Len(s) THEN Len(s) + 1
  ELSE IF s[i] = "?" THEN i
  ELSE FirstQuery(s, i + 1)

\* the pathname of the URL a string parses to: what lies between the origin
\* and the query; an empty path is "/"
UrlPathname(href) ==
  LET p == SubSeq(href, 2, FirstQuery(href, 2) - 1)
  IN  IF p = <<>> THEN <<"/">> ELSE p

\* the segments of a path that starts with "/": "/a/" is <<"a", "">>
RECURSIVE SplitFrom(_, _, _)
SplitFrom(s, i, cur) ==
  IF i > Len(s) THEN <<cur>>
  ELSE IF s[i] = "/" THEN <<cur>> \o SplitFrom(s, i + 1, <<>>)
  ELSE SplitFrom(s, i + 1, Append(cur, s[i]))

Segments(path) == SplitFrom(path, 2, <<>>)

\* new URLPattern({ pathname: path }): a segment ":name" is a named group,
\* any other segment is literal text
IsGroup(seg) == Len(seg) > 0 /\ seg[1] = ":"
GroupName(seg) == SubSeq(seg, 2, Len(seg))

SegmentMatches(pseg, seg) ==
  IF IsGroup(pseg) THEN Len(seg) > 0 ELSE pseg = seg

\* URLPattern.test(href): only the pathname component was given, every other
\* component matches anything
PatternTest(path, href) ==
  LET ps == Segments(path)
      us == Segments(UrlPathname(href))
  IN  /\ Len(ps) = Len(us)
      /\ \A i \in 1..Len(ps) : SegmentMatches(ps[i], us[i])

\* URLPattern.exec(href)?.pathname?.groups ?? {}
PatternGroups(path, href) ==
  LET ps == Segments(path)
      us == Segments(UrlPathname(href))
      gs == {i \in 1..Len(ps) : IsGroup(ps[i])}
      names == {GroupName(ps[i]) : i \in gs}
  IN  IF PatternTest(path, href)
      THEN [n \in names |-> us[CHOOSE i \in gs : GroupName(ps[i]) = n]]
      ELSE [n \in {} |-> <<>>]

\* --------------------------------------------------------- route registry
\* if (!["*", route[0]].includes(method)) continue;
MethodAdmits(routeMethod, method) == method \in {"*", routeMethod}

RECURSIVE GetRouteFrom(_, _, _, _)
GetRouteFrom(rs, i, method, href) ==
  IF i > Len(rs) THEN Undefined
  ELSE IF ~MethodAdmits(rs[i].method, method)
       THEN GetRouteFrom(rs, i + 1, method, href)
  ELSE IF ~PatternTest(rs[i].path, href)
       THEN GetRouteFrom(rs, i + 1, method, href)
  ELSE [found |-> TRUE, callback |-> rs[i].callback,
        pathParams |-> PatternGroups(rs[i].path, href)]

getRoute(rs, method, href) ==
  GetRouteFrom(rs, 1, method, StripTrailingSlash(href))

\* routes.push([method, new URLPattern({ pathname: path }), callback])
handleRoute(method, path, callback) ==
  /\ Len(routes) < MaxRoutes
  /\ routes' = Append(routes,
                      [method |-> method, path |-> path, callback |-> callback])
  /\ UNCHANGED <<lastLookup, dispatchVars, manifestVars>>

\* a call getRoute(method, url.href), its arguments and its result
Resolve(method, pathname, search) ==
  /\ lastLookup' = [called |-> TRUE, method |-> method,
                pathname |-> pathname, search |-> search,
                route |-> getRoute(routes, method, Href(pathname, search))]
  /\ UNCHANGED <<routes, dispatchVars, manifestVars>>

NoLookup == [called |-> FALSE, method |-> "", pathname |-> <<>>,
             search |-> <<>>, route |-> Undefined]

\* ------------------------------------------------------- middleware list
\* useMiddleware = (callback) => middleware.push(callback)
useMiddleware(callback) ==
  /\ middleware' = Append(middleware, callback)
  /\ UNCHANGED <<routes, lastLookup, activeSocketConnections, listening, ctx,
                 nextSocket, manifestVars>>

\* ------------------------------------------------------- channel registry
\* activeSocketConnections: a Map from channel name to Set of sockets, as a
\* function whose domain is the keys that were set. A Set iterates in
\* insertion order: it is a sequence without repetition
Has(set, x) == \E i \in 1..Len(set) : set[i] = x

\* Set.prototype.delete
SetDelete(set, x) == SelectSeq(set, LAMBDA y : y # x)

\* Set.prototype.add
SetAdd(set, x) == IF Has(set, x) THEN set ELSE Append(set, x)

removeSocketFromChannelMutant(conns, name, socket) == conns
removeSocketFromChannel(conns, name, socket) ==
  IF name \notin DOMAIN conns THEN conns
  ELSE [conns EXCEPT ![name] = SetDelete(@, socket)]

addSocketToChannel(conns, name, socket) ==
  [n \in DOMAIN conns \cup {name} |->
     IF n = name
     THEN SetAdd(IF n \in DOMAIN conns THEN conns[n] ELSE <<>>, socket)
     ELSE conns[n]]

\* --------------------------------------------------------- status helpers
\* `${status} ${HTTPStatusText.get(status) ?? ""}`
StatusBody(status) ==
  CASE status = 200 -> "200 OK"
    [] status = 403 -> "403 Forbidden"
    [] status = 404 -> "404 Not Found"
    [] status = 500 -> "500 Internal Server Error"
    [] status = 501 -> "501 Not Implemented"
    [] OTHER -> "0 "

\* contentType(lookup) of std/media_types: "" when it resolves to nothing
ContentTypeOf(lookup) ==
  CASE lookup = "json" -> "application/json"
    [] lookup = "html" -> "text/html"
    [] OTHER -> ""

NoResponse == [kind |-> "none", body |-> "", status |-> 0,
               headers |-> [contentType |-> "", disposition |-> ""]]
Handshake == [kind |-> "upgrade", body |-> "", status |-> 101,
              headers |-> [contentType |-> "", disposition |-> ""]]
\* new Response(ctx.res.body, { status, headers }): the headers are copied
Response(res) == [kind |-> "http", body |-> res.body, status |-> res.status,
                  headers |-> res.headers]

\* ------------------------------------------------------ request context
\* the context object and the closure variables override and socket of one
\* call of the connection handler. socket 0 is undefined. upgrades, ops and
\* acc and caught record what was done: the number of Deno.upgradeWebSocket
\* calls, the number of operations callbacks performed on the context, the
\* calls of the socket accessor (n: how many, ret: what the last one
\* returned, late: the last one was made when res.sent was true) and
\* whether the catch block ran. escaped: a rejected promise nobody awaits.
\* readyState is the readyState of the socket: "none" without a socket,
\* "connecting" from Deno.upgradeWebSocket until the handshake response is
\* on the wire, then "open", then "closed". cast records the last broadcast
\* made through the context.
NoCast == [called |-> FALSE, name |-> "", members |-> <<>>, sends |-> <<>>,
           threw |-> FALSE]

NoContext ==
  [pc |-> "idle", method |-> "", available |-> FALSE, bodyType |-> "undefined",
   route |-> "none", handler |-> "none", pathParams |-> <<>>,
   i |-> 0, mwLog |-> <<>>,
   res |-> [body |-> "", status |-> 200,
            headers |-> [contentType |-> "", disposition |-> ""],
            sent |-> FALSE],
   socket |-> 0, readyState |-> "none", override |-> FALSE, channel |-> "",
   cast |-> NoCast,
   file |-> "none", ops |-> 0, upgrades |-> 0,
   acc |-> [n |-> 0, ret |-> 0, late |-> FALSE],
   returned |-> NoResponse, caught |-> FALSE, escaped |-> FALSE]

\* sendStatus: ctx.res.body = ...; ctx.res.status = status. On a frozen
\* ctx.res the first assignment throws (module code is strict)
sendStatus(c, status) ==
  IF c.res.sent THEN c
  ELSE [c EXCEPT !.res.body = StatusBody(status), !.res.status = status]

\* inferContentType: headers.set on the Headers object, which Object.freeze
\* of ctx.res does not freeze
inferContentType(c, lookup) ==
  IF ContentTypeOf(lookup) = "" THEN c
  ELSE [c EXCEPT !.res.headers.contentType = ContentTypeOf(lookup)]

\* markForDownload: headers.set("content-disposition", ...)
markForDownload(c, filename) ==
  [c EXCEPT !.res.headers.disposition =
     IF filename = "" THEN "attachment"
     ELSE "attachment; filename=" \o filename]

\* sendJSON: body, inferContentType("json"), status
sendJSON(c) ==
  IF c.res.sent THEN c
  ELSE LET b == [c EXCEPT !.res.body = "json"]
           h == inferContentType(b, "json")
       IN  [h EXCEPT !.res.status = 200]

\* (ctx.res).sent = true; Object.freeze(ctx.res);
\* return override ?? new Response(ctx.res.body, { status, headers })
FinalizeNotSent(c) ==
  [c EXCEPT !.pc = "done",
            !.returned = IF c.override THEN Handshake ELSE Response(c.res)]
FinalizeMutant(c) ==
  LET f == [c EXCEPT !.res.sent = TRUE]
  IN  [f EXCEPT !.pc = "done", !.returned = Response(f.res)]
Finalize(c) ==
  LET f == [c EXCEPT !.res.sent = TRUE]
  IN  [f EXCEPT !.pc = "done",
                !.returned = IF f.override THEN Handshake ELSE Response(f.res)]

\* for (const callback of middleware) await callback(ctx): the next callback
\* is called, or the loop ends and the response is finalized
NextMiddleware(c) ==
  IF c.i < Len(middleware)
  THEN [c EXCEPT !.i = c.i + 1, !.pc = "mw",
                 !.mwLog = Append(@, middleware[c.i + 1])]
  ELSE Finalize(c)

\* catch (err) { log(...); ctx.res.sendStatus(InternalServerError) }, then
\* the finalization
Catch(c) == Finalize(sendStatus([c EXCEPT !.caught = TRUE], 500))

\* if (route) { pathParams = ...; await route.callback(ctx) }
\* else ctx.res.sendStatus(HTTPStatus.NotFound); then the middleware loop
RoutedMutant(c, route) ==
  IF route.found
  THEN [c EXCEPT !.route = "hit", !.pathParams = route.pathParams,
                 !.handler = route.callback, !.pc = "handler"]
  ELSE NextMiddleware([c EXCEPT !.route = "miss"])
Routed(c, route) ==
  IF route.found
  THEN [c EXCEPT !.route = "hit", !.pathParams = route.pathParams,
                 !.handler = route.callback, !.pc = "handler"]
  ELSE NextMiddleware(sendStatus([c EXCEPT !.route = "miss"], 404))

\* the connection handler up to the first callback: the context is built,
\* the method is checked, the body is decoded (bodyType "undefined": there
\* is none; decoded FALSE: the decoder throws) and the route is resolved
Receive(r, method, upgradeHeader, bodyType, decoded, pathname, search) ==
  /\ listening
  /\ ctx[r].pc = "idle"
  /\ bodyType = "undefined" => decoded
  /\ LET c0 == [NoContext EXCEPT !.method = method,
                                 !.available = upgradeHeader]
         c1 == IF decoded THEN [c0 EXCEPT !.bodyType = bodyType] ELSE c0
     IN  ctx' = [ctx EXCEPT ![r] =
           IF method \notin RequestMethods
           THEN Finalize(sendStatus(c0, 501))
           ELSE IF ~decoded THEN Catch(c0)
           ELSE Routed(c1, getRoute(routes, method, Href(pathname, search)))]
  /\ UNCHANGED <<routes, lastLookup, middleware, activeSocketConnections,
                 listening, nextSocket, manifestVars>>

\* a callback holds the context while it runs (the route handler, a
\* middleware) and whoever kept a reference to it holds it afterwards
Held(r) == ctx[r].pc \in {"handler", "mw", "done"} /\ ctx[r].ops < MaxOps

Op(c) == [c EXCEPT !.ops = c.ops + 1]

Only(r, c) ==
  /\ ctx' = [ctx EXCEPT ![r] = c]
  /\ UNCHANGED <<routes, lastLookup, middleware, activeSocketConnections,
                 listening, nextSocket, manifestVars>>

SendStatus(r, status) ==
  /\ Held(r)
  /\ Only(r, sendStatus(Op(ctx[r]), status))

SendJSON(r) ==
  /\ Held(r)
  /\ Only(r, sendJSON(Op(ctx[r])))

InferContentType(r, lookup) ==
  /\ Held(r)
  /\ Only(r, inferContentType(Op(ctx[r]), lookup))

MarkForDownload(r, filename) ==
  /\ Held(r)
  /\ Only(r, markForDownload(Op(ctx[r]), filename))

\* sendFile / sendFileStream up to the await of the read. The promise is
\* the running callback's when a callback runs ("pending"), and the late
\* caller's after the response was returned ("late")
SendFile(r) ==
  /\ Held(r)
  /\ ctx[r].file = "none"
  /\ Only(r, [Op(ctx[r]) EXCEPT
                !.file = IF ctx[r].pc = "done" THEN "late" ELSE "pending"])

\* sendFile / sendFileStream after the await: the read succeeded (body,
\* inferContentType(basename), status) or threw (sendStatus(NotFound)). On a
\* frozen ctx.res the assignment of the body throws inside the try, the
\* sendStatus of the catch throws again and the promise is rejected: when
\* the callback did not await it, nobody handles the rejection
FileDone(r, ok) ==
  /\ ctx[r].file # "none"
  /\ LET c == ctx[r]
         d == [c EXCEPT !.file = "none"]
     IN  Only(r,
           IF c.res.sent THEN [d EXCEPT !.escaped = (c.file = "pending")]
           ELSE IF ok
           THEN LET b == [d EXCEPT !.res.body = "file"]
                    h == inferContentType(b, "html")
                IN  [h EXCEPT !.res.status = 200]
           ELSE sendStatus(d, 404))

\* ctx.upgrade.socket(): Deno.upgradeWebSocket is called when the request
\* asks for the upgrade, no socket is held and the response is not sent; sock
\* is the socket it then returns
AccessorNoMemo(c, sock) ==
  IF ~c.available
  THEN [c EXCEPT !.acc = [n |-> @.n + 1, ret |-> 0, late |-> c.res.sent]]
  ELSE IF c.res.sent
  THEN [c EXCEPT !.acc = [n |-> @.n + 1, ret |-> c.socket,
                          late |-> c.res.sent]]
  ELSE [c EXCEPT !.socket = sock, !.readyState = "connecting",
                 !.override = TRUE,
                 !.upgrades = c.upgrades + 1,
                 !.acc = [n |-> @.n + 1, ret |-> sock, late |-> c.res.sent]]
AccessorNoSentCheck(c, sock) ==
  IF ~c.available
  THEN [c EXCEPT !.acc = [n |-> @.n + 1, ret |-> 0, late |-> c.res.sent]]
  ELSE IF c.socket # 0
  THEN [c EXCEPT !.acc = [n |-> @.n + 1, ret |-> c.socket,
                          late |-> c.res.sent]]
  ELSE [c EXCEPT !.socket = sock, !.readyState = "connecting",
                 !.override = TRUE,
                 !.upgrades = c.upgrades + 1,
                 !.acc = [n |-> @.n + 1, ret |-> sock, late |-> c.res.sent]]
Accessor(c, sock) ==
  IF ~c.available
  THEN [c EXCEPT !.acc = [n |-> @.n + 1, ret |-> 0, late |-> c.res.sent]]
  ELSE IF c.socket # 0 \/ c.res.sent
  THEN [c EXCEPT !.acc = [n |-> @.n + 1, ret |-> c.socket,
                          late |-> c.res.sent]]
  ELSE [c EXCEPT !.socket = sock, !.readyState = "connecting",
                 !.override = TRUE,
                 !.upgrades = c.upgrades + 1,
                 !.acc = [n |-> @.n + 1, ret |-> sock, late |-> c.res.sent]]

\* the registry after the accessor ran: addSocketToChannel(channel.name,
\* socket) when it upgraded
Upgraded(c, a, conns) ==
  IF a.upgrades # c.upgrades
  THEN addSocketToChannel(conns, c.channel, a.socket)
  ELSE conns

Socket(r) ==
  /\ Held(r)
  /\ LET c == Op(ctx[r])
         a == Accessor(c, nextSocket)
     IN  /\ ctx' = [ctx EXCEPT ![r] = a]
         /\ nextSocket' = IF a.upgrades # c.upgrades THEN nextSocket + 1
                          ELSE nextSocket
         /\ activeSocketConnections' =
              Upgraded(c, a, activeSocketConnections)
  /\ UNCHANGED <<routes, lastLookup, middleware, listening, manifestVars>>

\* ctx.upgrade.channel.join(name)
Join(r, name) ==
  /\ Held(r)
  /\ LET c == Op(ctx[r])
         a == Accessor(c, nextSocket)
         s == a.acc.ret
         conns == Upgraded(c, a, activeSocketConnections)
     IN  /\ ctx' = [ctx EXCEPT ![r] = [a EXCEPT !.channel = name]]
         /\ nextSocket' = IF a.upgrades # c.upgrades THEN nextSocket + 1
                          ELSE nextSocket
         /\ activeSocketConnections' =
              IF s # 0
              THEN addSocketToChannel(
                     removeSocketFromChannel(conns, c.channel, s), name, s)
              ELSE conns
  /\ UNCHANGED <<routes, lastLookup, middleware, listening, manifestVars>>

\* the readyState of a socket in the registry: that of the context holding it
ReadyState(s) ==
  IF \E q \in DOMAIN ctx : ctx[q].socket = s
  THEN ctx[CHOOSE q \in DOMAIN ctx : ctx[q].socket = s].readyState
  ELSE "closed"

\* s.send(data): WebSocket.send throws InvalidStateError on a socket that is
\* still connecting; on a closed socket it throws or discards the data,
\* depending on the runtime (closedThrows)
SendThrows(s, closedThrows) ==
  \/ ReadyState(s) = "connecting"
  \/ ReadyState(s) = "closed" /\ closedThrows

\* for (const s of channel) s.send(data): the sockets send was called on,
\* in iteration order; a send that throws ends the loop
RECURSIVE SendAll(_, _, _)
SendAll(channel, i, closedThrows) ==
  IF i > Len(channel) THEN [sends |-> <<>>, threw |-> FALSE]
  ELSE IF SendThrows(channel[i], closedThrows)
  THEN [sends |-> <<channel[i]>>, threw |-> TRUE]
  ELSE LET rest == SendAll(channel, i + 1, closedThrows)
       IN  [sends |-> <<channel[i]>> \o rest.sends, threw |-> rest.threw]

\* ctx.upgrade.channel.broadcast(message): the channel of the context's
\* name is looked up; without it nothing is sent. The message (sent as it
\* is, or as JSON text) is the same for every socket and is left out
Broadcast(r, closedThrows) ==
  /\ Held(r)
  /\ LET c == Op(ctx[r])
         name == c.channel
     IN  Only(r,
           IF name \notin DOMAIN activeSocketConnections
           THEN [c EXCEPT !.cast = [called |-> TRUE, name |-> name,
                                    members |-> <<>>, sends |-> <<>>,
                                    threw |-> FALSE]]
           ELSE LET channel == activeSocketConnections[name]
                    out == SendAll(channel, 1, closedThrows)
                IN  [c EXCEPT !.cast = [called |-> TRUE, name |-> name,
                                        members |-> channel,
                                        sends |-> out.sends,
                                        threw |-> out.threw]])

\* the handshake response returned for the request reaches the client: the
\* socket of Deno.upgradeWebSocket opens
Open(r) ==
  /\ ctx[r].pc = "done"
  /\ ctx[r].returned = Handshake
  /\ ctx[r].readyState = "connecting"
  /\ Only(r, [ctx[r] EXCEPT !.readyState = "open"])

\* the socket closes (the client leaves, the connection drops). No close
\* listener was put on the socket: no code of the server runs
Close(r) ==
  /\ ctx[r].readyState \in {"connecting", "open"}
  /\ Only(r, [ctx[r] EXCEPT !.readyState = "closed"])

\* the running callback throws: the catch block, then the finalization
Throw(r) ==
  /\ ctx[r].pc \in {"handler", "mw"}
  /\ Only(r, Catch(ctx[r]))

\* the running callback returns: the middleware loop goes on
Return(r) ==
  /\ ctx[r].pc \in {"handler", "mw"}
  /\ Only(r, NextMiddleware(ctx[r]))

\* listenAndServe: serve() starts to call the connection handler
listenAndServe ==
  /\ ~listening
  /\ listening' = TRUE
  /\ UNCHANGED <<routes, lastLookup, middleware, activeSocketConnections, ctx,
                 nextSocket, manifestVars>>

\* ------------------------------------------------------ manifest indexer
\* indexRoutes and indexStatic of src/unnamed/part_000. Pathnames of files
\* are sequences of tokens: the characters the code looks for ("/", ".",
\* "_", "[", "]", the digits) and words it looks at as a whole ("index",
\* "data", "middleware", "md", "a").

\* pathname.split("/")
Split(path) == SplitFrom(path, 1, <<>>)

\* parts.join("/")
RECURSIVE JoinParts(_)
JoinParts(parts) ==
  IF Len(parts) = 0 THEN <<>>
  ELSE IF Len(parts) = 1 THEN parts[1]
  ELSE parts[1] \o <<"/">> \o JoinParts(Tail(parts))

StartsWith(s, prefix) ==
  Len(s) >= Len(prefix) /\ SubSeq(s, 1, Len(prefix)) = prefix

EndsWith(s, suffix) ==
  Len(s) >= Len(suffix)
    /\ SubSeq(s, Len(s) - Len(suffix) + 1, Len(s)) = suffix

\* the callback of map in pathToPattern: a part "[...name]" becomes
\* ":name*"; for a part "[name]" the template `:${part.slice(1, -1)}` is
\* evaluated and dropped (the statement has no return) and the part is
\* returned as it is
MapPart(part) ==
  IF EndsWith(part, <<"]">>) /\ StartsWith(part, <<"[", ".", ".", ".">>)
  THEN <<":">> \o SubSeq(part, 5, Len(part) - 1) \o <<"*">>
  ELSE part

\* .replace(/\/index$/, "")
DropIndex(s) ==
  IF EndsWith(s, <<"/", "index">>) THEN SubSeq(s, 1, Len(s) - 2) ELSE s

\* .replace(/\/_(middleware|data)$/, "/*?")
WildcardMarker(s) ==
  IF EndsWith(s, <<"/", "_", "middleware">>) \/ EndsWith(s, <<"/", "_", "data">>)
  THEN SubSeq(s, 1, Len(s) - 3) \o <<"/", "*", "?">>
  ELSE s

\* s without the slashes it starts with
RECURSIVE StripLeadingSlashes(_)
StripLeadingSlashes(s) ==
  IF Len(s) > 0 /\ s[1] = "/" THEN StripLeadingSlashes(Tail(s)) ELSE s

\* every run of slashes of s as one slash
RECURSIVE CollapseSlashes(_)
CollapseSlashes(s) ==
  IF Len(s) = 0 THEN <<>>
  ELSE IF Len(s) > 1 /\ s[1] = "/" /\ s[2] = "/" THEN CollapseSlashes(Tail(s))
  ELSE <<s[1]>> \o CollapseSlashes(Tail(s))

\* .replace(/(^\/*|\/+)/g, "/"): the slashes at the start (also none) and
\* every later run of slashes become one slash
NormaliseSlashes(s) == <<"/">> \o CollapseSlashes(StripLeadingSlashes(s))

\* the name of a group segment ":name" or ":name*"
PatternGroupName(seg) ==
  IF EndsWith(seg, <<"*">>) THEN SubSeq(seg, 2, Len(seg) - 1)
  ELSE SubSeq(seg, 2, Len(seg))

\* new URLPattern({ pathname }) throws a TypeError when two groups of the
\* pathname have the same name
PatternThrows(pattern) ==
  LET segs == Segments(pattern)
  IN  \E i, j \in 1..Len(segs) :
        /\ i # j
        /\ IsGroup(segs[i])
        /\ IsGroup(segs[j])
        /\ PatternGroupName(segs[i]) = PatternGroupName(segs[j])

\* pathToPattern(path): the pathname given to new URLPattern
pathToPattern(path) ==
  LET parts == Split(path)
      mapped == [i \in 1..Len(parts) |-> MapPart(parts[i])]
  IN  NormaliseSlashes(WildcardMarker(DropIndex(JoinParts(mapped))))

\* the last segment of a pathname
BaseName(pathname) ==
  LET parts == Split(pathname) IN parts[Len(parts)]

\* index of the last "." of s, 0 when there is none
RECURSIVE LastDot(_, _)
LastDot(s, i) ==
  IF i = 0 THEN 0
  ELSE IF s[i] = "." THEN i
  ELSE LastDot(s, i - 1)

\* extname(pathname) of std/path: from the last "." of the last segment,
\* "" when there is none or the segment starts with it
extname(pathname) ==
  LET base == BaseName(pathname)
      dot == LastDot(base, Len(base))
  IN  IF dot <= 1 THEN <<>> ELSE SubSeq(base, dot, Len(base))

\* pathname.slice(0, -ext.length): slice(0, -0) is the empty string
WithoutExt(pathname) ==
  LET ext == extname(pathname)
  IN  IF Len(ext) = 0 THEN <<>>
      ELSE SubSeq(pathname, 1, Len(pathname) - Len(ext))

HasSlash(pathname) == \E i \in 1..Len(pathname) : pathname[i] = "/"

\* /\/_data\.[^/]+$/ and /\/_middleware\.[^/]+$/ : the last segment is the
\* marker, a "." and at least one more character
MarkerFile(pathname, word) ==
  /\ HasSlash(pathname)
  /\ StartsWith(BaseName(pathname), <<"_", word, ".">>)
  /\ Len(BaseName(pathname)) > 3

\* the value of a conversion to number that is not a number
NaN == -1

IsDigit(t) == t \in {"0", "1", "4", "5"}

DigitValue(t) ==
  CASE t = "0" -> 0 [] t = "1" -> 1 [] t = "4" -> 4 [] t = "5" -> 5
    [] OTHER -> NaN

\* the digits s starts with at or after i
RECURSIVE DigitsFrom(_, _)
DigitsFrom(s, i) ==
  IF i <= Len(s) /\ IsDigit(s[i]) THEN <<s[i]>> \o DigitsFrom(s, i + 1)
  ELSE <<>>

\* const [, status] = pathname.match(/\/_(\d+)+\.[^/]+$/) ?? []: the digits
\* of a last segment "_<digits>.<more>", undefined (<<>>) otherwise
StatusOf(pathname) ==
  LET base == BaseName(pathname)
      digits == DigitsFrom(base, 2)
      after == 2 + Len(digits)
  IN  IF /\ HasSlash(pathname)
         /\ StartsWith(base, <<"_">>)
         /\ Len(digits) > 0
         /\ Len(base) > after
         /\ base[after] = "."
      THEN digits
      ELSE <<>>

\* +string: the number a string of digits denotes
RECURSIVE ToNumber(_)
ToNumber(digits) ==
  IF Len(digits) = 0 THEN NaN
  ELSE IF Len(digits) = 1 THEN DigitValue(digits[1])
  ELSE 10 * ToNumber(SubSeq(digits, 1, Len(digits) - 1))
         + DigitValue(digits[Len(digits)])

\* +status?.[1]: the number denoted by the second character of status
SecondCharNumber(status) ==
  IF Len(status) < 2 THEN NaN ELSE DigitValue(status[2])

\* isErrorStatus of std/http/http_status.ts: the 4xx and 5xx of the Status
\* enum
isErrorStatus(n) ==
  n \in (400..418) \cup (421..426) \cup {428, 429, 431, 451}
        \cup (500..508) \cup {510, 511}

\* HttpMethods.includes(key)
IsHttpMethod(key) == key \in {"GET", "POST", "PUT", "PATCH", "DELETE"}

\* a call of a hook of ./hooks.ts with what it was given
Call(hook, method, pattern, handler, calls, initialisesResponse, status, keys) ==
  [hook |-> hook, method |-> method, pattern |-> pattern,
   handler |-> handler, calls |-> calls,
   initialisesResponse |-> initialisesResponse, status |-> status,
   keys |-> keys]

\* threw: indexing the file ended in an exception
NoFile == [kind |-> "none", pathname |-> <<>>, ignored |-> FALSE,
           module |-> FALSE, keys |-> <<>>, etag |-> <<>>, threw |-> FALSE]

\* a file of ./routes: its pathname, whether manifest.ignorePattern matches
\* it, whether manifest.routes has its module, and the keys of its exports
\* merged with those of its parsed body and front matter, in order. The key
\* "pattern" is an exported URLPattern
RouteFile(pathname, ignored, module, keys) ==
  [kind |-> "route", pathname |-> pathname, ignored |-> ignored,
   module |-> module, keys |-> keys, etag |-> <<>>, threw |-> FALSE]

\* a file of ./static: its pathname, its etag and whether
\* manifest.ignorePattern matches it
StaticFile(pathname, etag, ignored) ==
  [kind |-> "static", pathname |-> pathname, ignored |-> ignored,
   module |-> FALSE, keys |-> <<>>, etag |-> etag, threw |-> FALSE]

\* exports.pattern: the exported URLPattern, pathToPattern of the pathname
\* without its extension otherwise
PatternOf(file) ==
  IF Has(file.keys, "pattern") THEN <<"custom">>
  ELSE pathToPattern(WithoutExt(file.pathname))

\* the keys of exports after exports.pattern ??= ...
ExportKeysOf(file) ==
  IF Has(file.keys, "pattern") THEN file.keys
  ELSE Append(file.keys, "pattern")

\* let render = () => body; default and handler replace it, handler last
RenderOf(keys) ==
  IF Has(keys, "handler") THEN "handler"
  ELSE IF Has(keys, "default") THEN "default"
  ELSE "body"

\* const { GET, ...route } = exports; isPage; route.GET = async ...: the
\* keys of route when the loop over them starts
RouteKeysOnlyWithGet(file) ==
  LET keys == ExportKeysOf(file)
      route == SetDelete(keys, "GET")
  IN  IF Has(keys, "GET") THEN Append(route, "GET") ELSE route
RouteKeys(file) ==
  LET keys == ExportKeysOf(file)
      route == SetDelete(keys, "GET")
      isPage == \/ Has(keys, "GET")
                \/ Has(route, "default")
                \/ Has(route, "handler")
  IN  IF isPage \/ ~file.module THEN Append(route, "GET") ELSE route

\* for (const key in route): the calls of useMiddleware, in order
RECURSIVE MethodCalls(_, _, _)
MethodCalls(file, route, i) ==
  IF i > Len(route) THEN <<>>
  ELSE IF route[i] \in {"default", "handler"} \/ ~IsHttpMethod(route[i])
  THEN MethodCalls(file, route, i + 1)
  ELSE <<Call("useMiddleware", route[i], PatternOf(file),
              IF route[i] = "GET" THEN "page" ELSE "export",
              IF route[i] # "GET" THEN route[i]
              ELSE IF Has(file.keys, "GET") THEN "GET"
              ELSE RenderOf(file.keys),
              TRUE, 0, <<>>)>>
         \o MethodCalls(file, route, i + 1)

\* the keys of data: those of route that are no method, default or handler
DataKeys(route) ==
  SelectSeq(route,
            LAMBDA k : k \notin {"default", "handler"} /\ ~IsHttpMethod(k))

\* a round of the loop gets past the ignore check
Skipped(file) ==
  /\ ~MarkerFile(file.pathname, "data")
  /\ ~MarkerFile(file.pathname, "middleware")
  /\ ~isErrorStatus(SecondCharNumber(StatusOf(file.pathname)))
  /\ file.ignored

\* exports.pattern ??= pathToPattern(...) throws
RouteThrows(file) ==
  /\ ~Skipped(file)
  /\ ~Has(file.keys, "pattern")
  /\ PatternThrows(pathToPattern(WithoutExt(file.pathname)))

\* one round of the loop of indexRoutes: the calls of the hooks for a file
RouteCalls(file) ==
  LET status == StatusOf(file.pathname)
      isData == MarkerFile(file.pathname, "data")
      isMiddleware == MarkerFile(file.pathname, "middleware")
      isErrorHandler == isErrorStatus(SecondCharNumber(status))
      route == RouteKeys(file)
  IN  IF Skipped(file)
      THEN <<>>
      ELSE IF isMiddleware
      THEN <<Call("useMiddleware", "", PatternOf(file), "exports", "",
                  FALSE, 0, ExportKeysOf(file))>>
      ELSE IF isData
      THEN <<Call("useData", "", PatternOf(file), "", "", FALSE, 0,
                  ExportKeysOf(file))>>
      ELSE IF isErrorHandler
      THEN <<Call("useErrorHandler", "", PatternOf(file), "exports", "",
                  FALSE, ToNumber(status), ExportKeysOf(file))>>
      ELSE MethodCalls(file, route, 1)
             \o <<Call("useData", "", PatternOf(file), "", "", FALSE, 0,
                       DataKeys(route))>>

indexRoutes(file) ==
  /\ indexed = NoFile
  /\ hooks' = IF RouteThrows(file) THEN hooks ELSE hooks \o RouteCalls(file)
  /\ indexed' = [file EXCEPT !.threw = RouteThrows(file)]
  /\ UNCHANGED <<reply, serverVars>>

\* one file of indexStatic: the GET entry that serves it, unless it is
\* ignored (the processors that transform the file are left out)
indexStatic(file) ==
  /\ indexed = NoFile
  /\ hooks' = IF file.ignored THEN hooks
              ELSE Append(hooks,
                          Call("useMiddleware", "GET",
                               pathToPattern(file.pathname), "static", "",
                               TRUE, 0, <<>>))
  /\ indexed' = file
  /\ UNCHANGED <<reply, serverVars>>

\* BUILD_ID of ../constants.ts
BUILD_ID == "NEW"

\* a query parameter: absent (get gives null), or present with a value
NoParam == [present |-> FALSE, value |-> ""]
Param(value) == [present |-> TRUE, value |-> value]

\* ctx.url of a request to a static file: its pathname, the cache id
\* parameter and whether there is another parameter
Url(pathname, cacheId, other) ==
  [pathname |-> pathname, cacheId |-> cacheId, other |-> other]

NoUrl == Url(<<>>, NoParam, FALSE)

NoHeaders == [contentType |-> "", vary |-> "", etag |-> <<>>,
              cacheControl |-> "", location |-> NoUrl]

\* a?.replace(/^W\//, "")
StripWeak(tag) ==
  IF StartsWith(tag, <<"W", "/">>) THEN SubSeq(tag, 3, Len(tag)) ELSE tag

etagsMatchExact(a, b) == a = b
etagsMatch(a, b) == StripWeak(a) = StripWeak(b)

\* the handler indexStatic registers for a file, called with ctx.url and
\* the if-none-match header of the request (absent: ?? "")
StaticHandlerNoTruthTest(file, url, ifNoneMatch) ==
  LET cacheId == url.cacheId
      headers == [NoHeaders EXCEPT !.contentType = "type",
                                   !.vary = "If-None-Match",
                                   !.etag = file.etag]
      cached == IF cacheId.present
                THEN [headers EXCEPT !.cacheControl =
                        "public, max-age=31536000, immutable"]
                ELSE headers
      header == IF ifNoneMatch.present THEN ifNoneMatch.value ELSE <<>>
  IN  IF cacheId.value # BUILD_ID
      THEN [status |-> 302, body |-> "none",
            headers |-> [NoHeaders EXCEPT !.location =
                           [url EXCEPT !.cacheId = NoParam]]]
      ELSE IF etagsMatch(file.etag, header)
      THEN [status |-> 304, body |-> "none", headers |-> cached]
      ELSE [status |-> 200, body |-> "content", headers |-> cached]
StaticHandler(file, url, ifNoneMatch) ==
  LET cacheId == url.cacheId
      truthy == cacheId.present /\ cacheId.value # ""
      headers == [NoHeaders EXCEPT !.contentType = "type",
                                   !.vary = "If-None-Match",
                                   !.etag = file.etag]
      cached == IF truthy
                THEN [headers EXCEPT !.cacheControl =
                        "public, max-age=31536000, immutable"]
                ELSE headers
      header == IF ifNoneMatch.present THEN ifNoneMatch.value ELSE <<>>
  IN  IF truthy /\ cacheId.value # BUILD_ID
      THEN [status |-> 302, body |-> "none",
            headers |-> [NoHeaders EXCEPT !.location =
                           [url EXCEPT !.cacheId = NoParam]]]
      ELSE IF etagsMatch(file.etag, header)
      THEN [status |-> 304, body |-> "none", headers |-> cached]
      ELSE [status |-> 200, body |-> "content", headers |-> cached]

NoReply == [called |-> FALSE, url |-> NoUrl, ifNoneMatch |-> [present |-> FALSE, value |-> <<>>],
            response |-> [status |-> 0, body |-> "none",
                          headers |-> NoHeaders]]

\* a GET for the static file that was indexed reaches its handler
StaticGet(cacheId, other, ifNoneMatch) ==
  /\ indexed.kind = "static"
  /\ hooks # <<>>
  /\ ~reply.called
  /\ LET url == Url(indexed.pathname, cacheId, other)
     IN  reply' = [called |-> TRUE, url |-> url,
                   ifNoneMatch |-> ifNoneMatch,
                   response |-> StaticHandler(indexed, url, ifNoneMatch)]
  /\ UNCHANGED <<hooks, indexed, serverVars>>

\* ------------------------------------------------ inputs of the indexer
\* segments of the pathnames of route files
RouteSegments ==
  {<<"a">>, <<"index">>, <<"[", "a", "]">>, <<"[", ".", ".", ".", "a", "]">>,
   <<"_", "data">>, <<"_", "middleware">>, <<"_", "4", "0", "4">>,
   <<"_", "4", "1">>}

\* "/" and the segments, joined by "/"
RECURSIVE PathOf(_)
PathOf(segs) ==
  IF Len(segs) = 0 THEN <<>>
  ELSE <<"/">> \o segs[1] \o PathOf(Tail(segs))

\* the route paths of up to MaxDepth segments, and the files they name
RouteStems == {PathOf(segs) : segs \in SeqsUpTo(RouteSegments, MaxDepth) \ {<<>>}}
RouteFilePaths == {stem \o <<".", "md">> : stem \in RouteStems}

ExportKeys == {"GET", "POST", "default", "handler", "title", "pattern"}

\* the keys of a module namespace come in code unit order
ExportKeyOrder == <<"GET", "POST", "default", "handler", "pattern", "title">>

\* the keys of a module of manifest.routes: up to MaxExports exports; and
\* those of a file that has none: what its body and front matter hold
ModuleKeys ==
  {SelectSeq(ExportKeyOrder, LAMBDA k : k \in exported) :
     exported \in {e \in SUBSET ExportKeys : Cardinality(e) <= MaxExports}}
ContentKeys == {<<>>, <<"title">>}

KeysOf(module) == IF module THEN ModuleKeys ELSE ContentKeys

\* entity tags: strings over "W", "/" and one more character
Tags == SeqsUpTo({"W", "/", "a"}, MaxTagLen)

\* the etag of a file: an opaque tag, weak (W/) or not
OpaqueTags == SeqsUpTo({"a"}, MaxTagLen - 1) \ {<<>>}
FileTags == OpaqueTags \cup {<<"W", "/">> \o t : t \in OpaqueTags}

StaticFiles ==
  {StaticFile(<<"/", "a", ".", "md">>, tag, ig) :
     tag \in FileTags, ig \in BOOLEAN}

\* values of the cache id parameter
CacheIds == {NoParam, Param(""), Param("NEW"), Param("OLD")}

\* the if-none-match header: absent, or a tag
IfNoneMatches ==
  {[present |-> FALSE, value |-> <<>>]}
    \cup {[present |-> TRUE, value |-> t] : t \in Tags}

\* the manifest indexer before indexRoutes and indexStatic ran
ManifestInit ==
  /\ hooks = <<>>
  /\ indexed = NoFile
  /\ reply = NoReply

DispatchInit ==
  /\ middleware = <<>>
  /\ activeSocketConnections = [n \in {} |-> {}]
  /\ listening = FALSE
  /\ ctx = [r \in Requests |-> NoContext]
  /\ nextSocket = 1

RegistryInit ==
  /\ routes = <<>>
  /\ lastLookup = NoLookup
  /\ DispatchInit
  /\ ManifestInit

\* the registry is filled, then getRoute is called once
RegistryNext ==
  \/ \E m \in RouteMethods, p \in RoutePaths, cb \in Handlers :
        ~lastLookup.called /\ handleRoute(m, p, cb)
  \/ \E m \in WireMethods, p \in Pathnames, s \in Searches :
        ~lastLookup.called /\ Resolve(m, p, s)

RegistrySpec == RegistryInit /\ [][RegistryNext]_vars

Init ==
  /\ routes = <<>>
  /\ lastLookup = NoLookup
  /\ DispatchInit
  /\ ManifestInit

Registered(seq, x) == \E i \in 1..Len(seq) : seq[i] = x

\* routes and middleware are registered before listenAndServe is called,
\* each of them once, in any order
Next ==
  \/ \E e \in DispatchRoutes :
        /\ ~listening
        /\ ~Registered(routes, e)
        /\ handleRoute(e.method, e.path, e.callback)
  \/ \E cb \in Middlewares :
        /\ ~listening
        /\ ~Registered(middleware, cb)
        /\ useMiddleware(cb)
  \/ listenAndServe
  \/ \E r \in Requests, m \in WireMethods, u \in BOOLEAN, b \in BodyTypes,
        d \in BOOLEAN, p \in ShortPathnames :
        Receive(r, m, u, b, d, p, <<>>)
  \/ \E r \in Requests, st \in SentStatuses : SendStatus(r, st)
  \/ \E r \in Requests : SendJSON(r)
  \/ \E r \in Requests, l \in Lookups : InferContentType(r, l)
  \/ \E r \in Requests, f \in Filenames : MarkForDownload(r, f)
  \/ \E r \in Requests : SendFile(r)
  \/ \E r \in Requests, ok \in BOOLEAN : FileDone(r, ok)
  \/ \E r \in Requests : Socket(r)
  \/ \E r \in Requests, n \in JoinNames : Join(r, n)
  \/ \E r \in Requests : Throw(r)
  \/ \E r \in Requests : Return(r)

Spec == Init /\ [][Next]_vars

\* await route.callback(ctx) and await callback(ctx) go on when the callback
\* is over: every callback that was invoked returns or throws
Completes(r) == Return(r) \/ Throw(r)

LiveSpec == Spec /\ \A r \in Requests : WF_vars(Completes(r))

\* the channel registry under concurrent requests: one route is registered,
\* the server is started, and the handlers of ChannelRequests join
\* channels and broadcast while the sockets open and close
ChannelInit ==
  /\ routes = <<>>
  /\ lastLookup = NoLookup
  /\ middleware = <<>>
  /\ activeSocketConnections = <<>>
  /\ listening = FALSE
  /\ ctx = [r \in ChannelRequests |-> NoContext]
  /\ nextSocket = 1
  /\ ManifestInit

\* the operations performed so far on all the contexts
RECURSIVE Traffic(_)
Traffic(rs) ==
  IF rs = {} THEN 0
  ELSE LET r == CHOOSE q \in rs : TRUE
       IN  ctx[r].ops + Traffic(rs \ {r})

Quiet == Traffic(ChannelRequests) < MaxTraffic

\* the requests are numbered in the order they arrive
Arrived(r) == \A q \in ChannelRequests : q < r => ctx[q].pc # "idle"

ChannelNext ==
  \/ /\ ~listening
     /\ routes = <<>>
     /\ handleRoute("GET", <<"/", "a">>, "h1")
  \/ listenAndServe
  \/ \E r \in ChannelRequests, u \in BOOLEAN :
        /\ Arrived(r)
        /\ Receive(r, "GET", u, "undefined", TRUE, <<"/", "a">>, <<>>)
  \/ \E r \in ChannelRequests : Quiet /\ Socket(r)
  \/ \E r \in ChannelRequests, n \in ChannelNames : Quiet /\ Join(r, n)
  \/ \E r \in ChannelRequests, t \in BOOLEAN : Quiet /\ Broadcast(r, t)
  \/ \E r \in ChannelRequests : Return(r)
  \/ \E r \in ChannelRequests : Open(r)
  \/ \E r \in ChannelRequests : Close(r)

ChannelSpec == ChannelInit /\ [][ChannelNext]_vars

\* the manifest indexer: a file of ./routes is indexed, or a file of
\* ./static is indexed and then requested
ManifestNext ==
  \/ /\ indexed = NoFile
     /\ \E p \in RouteFilePaths, ig \in BOOLEAN, m \in BOOLEAN :
          \E ks \in KeysOf(m) : indexRoutes(RouteFile(p, ig, m, ks))
  \/ /\ indexed = NoFile
     /\ \E f \in StaticFiles : indexStatic(f)
  \/ /\ indexed.kind = "static"
     /\ \E c \in CacheIds, o \in BOOLEAN, h \in IfNoneMatches :
          StaticGet(c, o, h)

\* nothing is registered and no file is indexed yet
IndexerInit ==
  /\ routes = <<>>
  /\ lastLookup = NoLookup
  /\ middleware = <<>>
  /\ activeSocketConnections = <<>>
  /\ listening = FALSE
  /\ ctx = [r \in Requests |-> NoContext]
  /\ nextSocket = 1
  /\ ManifestInit

ManifestSpec == IndexerInit /\ [][ManifestNext]_vars

\* ------------------------------------------------------------------ claims
\* the methods the HTTP surface accepts
HttpMethods == {"POST", "GET", "PUT", "PATCH", "DELETE"}

\* the entry the registry contract selects: the earliest entry whose method
\* is ANY ("*") or the request method and whose pattern matches the path
\* with its trailing slash removed
Eligible(e, method, href) ==
  /\ e.method = "*" \/ e.method = method
  /\ PatternTest(e.path, StripTrailingSlash(href))

FirstEligible(rs, method, href) ==
  LET hits == {i \in 1..Len(rs) : Eligible(rs[i], method, href)}
  IN  IF hits = {} THEN Undefined
      ELSE LET i == CHOOSE j \in hits : \A k \in hits : j <= k
           IN  [found |-> TRUE, callback |-> rs[i].callback,
                pathParams |->
                  PatternGroups(rs[i].path, StripTrailingSlash(href))]

LookupHref == Href(lastLookup.pathname, lastLookup.search)

\* C1: getRoute returns the earliest-registered entry whose method is ANY or
\* the request method and whose pattern matches the path, with the path
\* parameters of that entry, and reports "not found" only when there is no
\* such entry; an ANY entry is eligible for POST, GET, PUT, PATCH and DELETE.
C1_FirstEligibleEntry ==
  lastLookup.called =>
    lastLookup.route = FirstEligible(routes, lastLookup.method, LookupHref)

\* C2: resolving a URL whose path ends in "/" gives the same entry and the
\* same path parameters as resolving it with that slash removed, with or
\* without a query string.
C2_TrailingSlashInvariance ==
  (/\ lastLookup.called
   /\ lastLookup.pathname[Len(lastLookup.pathname)] = "/")
  => lastLookup.route =
       getRoute(routes, lastLookup.method,
                Href(SubSeq(lastLookup.pathname, 1,
                            Len(lastLookup.pathname) - 1),
                     lastLookup.search))

\* C3: a request reaches routing if and only if its method is POST, GET,
\* PUT, PATCH or DELETE (and its body, if any, decodes); a request with any
\* other method is answered 501 Not Implemented, no route is resolved for
\* it, no callback is invoked and its body is not decoded.
C3_MethodValidation ==
  \A r \in Requests :
    ctx[r].pc # "idle" =>
      /\ ctx[r].route # "none" => ctx[r].method \in HttpMethods
      /\ (ctx[r].method \in HttpMethods /\ ~ctx[r].caught)
           => ctx[r].route # "none"
      /\ ctx[r].method \notin HttpMethods =>
           /\ ctx[r].returned.kind = "http"
           /\ ctx[r].returned.status = 501
           /\ ctx[r].route = "none"
           /\ ctx[r].handler = "none"
           /\ ctx[r].mwLog = <<>>
           /\ ctx[r].bodyType = "undefined"

\* C4: for every request with a recognised method that was routed, once the
\* response is finalized every registered middleware has been invoked exactly
\* once, in registration order: on the normal path, on the not-found path
\* and when the route handler threw.
C4_MiddlewareOnEveryPath ==
  \A r \in Requests :
    (/\ ctx[r].pc = "done"
     /\ ctx[r].method \in HttpMethods
     /\ ctx[r].route # "none")
    => ctx[r].mwLog = middleware

\* C5: an error thrown while the request is handled (also by a response
\* helper the handler does not await) is caught at the dispatch boundary and
\* the response built for the request is 500 Internal Server Error; no
\* rejected promise escapes the connection handler.
C5_ErrorContainment ==
  \A r \in Requests :
    /\ ~ctx[r].escaped
    /\ ctx[r].caught =>
         /\ ctx[r].pc = "done"
         /\ ctx[r].res.status = 500
         /\ ctx[r].res.body = "500 Internal Server Error"

\* a miss: no handler, and 404 with its status text until a callback acts
C6_MissState ==
  \A r \in Requests :
    ctx[r].route = "miss" =>
      /\ ctx[r].handler = "none"
      /\ (ctx[r].ops = 0 /\ ~ctx[r].caught) =>
           /\ ctx[r].res.status = 404
           /\ ctx[r].res.body = "404 Not Found"

\* after a miss the status changes only in a step of a running middleware:
\* an operation on the context, a throw, the completion of a file it sent
C6_MissStep ==
  \A r \in Requests :
    (/\ ctx[r].route = "miss"
     /\ ctx'[r].res.status # ctx[r].res.status)
    => \/ /\ ctx[r].pc = "mw"
          /\ ctx'[r].ops = ctx[r].ops + 1 \/ ctx'[r].caught
       \/ ctx[r].file # "none" /\ ctx'[r].file = "none"

\* C6: when no route matches, no route handler is invoked, the response is
\* 404 with its status text before any middleware has acted, and the
\* finalized response is 404 unless a middleware changed it (by an operation
\* on the context, by throwing, by a file it sent).
C6_RoutingMiss == [](C6_MissState) /\ [][C6_MissStep]_vars

\* a miss with a middleware that ran and left the 404 in place
C6_Witness ==
  \E r \in Requests :
    /\ ctx[r].route = "miss"
    /\ ctx[r].pc = "done"
    /\ ctx[r].mwLog # <<>>
    /\ ctx[r].returned.kind = "http"
    /\ ctx[r].returned.status = 404

\* no step changes a response facet that is sent, or the response returned
C7_FrozenStep ==
  \A r \in Requests :
    ctx[r].res.sent =>
      /\ ctx'[r].res = ctx[r].res
      /\ ctx'[r].returned = ctx[r].returned

\* C7: once res.sent is true, no operation on the context changes the body,
\* the status or the headers of the response facet or the response returned.
C7_FrozenResponse == [][C7_FrozenStep]_vars

\* at most one upgrade; every call of the accessor returned the socket held;
\* no socket without the upgrade header
C8_AccessorState ==
  \A r \in Requests :
    /\ ctx[r].upgrades <= 1
    /\ ctx[r].acc.n > 0 => ctx[r].acc.ret = ctx[r].socket
    /\ ~ctx[r].available =>
         /\ ctx[r].upgrades = 0
         /\ ctx[r].socket = 0
         /\ ctx[r].acc.ret = 0

\* the socket held never changes; requests without the upgrade header leave
\* the channel registry as it is
C8_AccessorStep ==
  \A r \in Requests :
    /\ ctx[r].socket # 0 => ctx'[r].socket = ctx[r].socket
    /\ (\A q \in Requests : ~ctx[q].available)
         => activeSocketConnections' = activeSocketConnections

\* C8: within one request the socket accessor, called directly or through
\* join, upgrades at most once and every call after the first successful
\* one returns that same socket; without the upgrade header it never
\* upgrades, returns nothing and leaves the channel registry unchanged.
C8_UpgradeOnce == [](C8_AccessorState) /\ [][C8_AccessorStep]_vars

\* the accessor was called twice, the second call returned the socket the
\* first one obtained
C8_Witness ==
  \E r \in Requests :
    /\ ctx[r].acc.n >= 2
    /\ ctx[r].upgrades = 1
    /\ ctx[r].socket # 0
    /\ ctx[r].acc.ret = ctx[r].socket

\* C9 as claimed: a call of the accessor after the response is finalized
\* returns nothing, whether or not a socket was obtained before.
C9_LateAccessorReturnsNothing ==
  \A r \in Requests : ctx[r].acc.late => ctx[r].acc.ret = 0

\* a call made after the finalization returned the socket held
C9_LateState ==
  \A r \in Requests : ctx[r].acc.late => ctx[r].acc.ret = ctx[r].socket

\* once the response is sent nothing is upgraded, and a call of the accessor
\* alone (not a join to another channel) leaves the channel registry as it is
C9_LateStep ==
  \A r \in Requests :
    ctx[r].res.sent =>
      /\ ctx'[r].upgrades = ctx[r].upgrades
      /\ ctx'[r].socket = ctx[r].socket
      /\ ctx'[r].override = ctx[r].override
      /\ nextSocket' = nextSocket
      /\ (ctx'[r].acc.n # ctx[r].acc.n /\ ctx'[r].channel = ctx[r].channel)
           => activeSocketConnections' = activeSocketConnections

\* C9 as amended: a call of the accessor after the response is finalized
\* upgrades nothing, changes no channel registry entry and returns the
\* socket obtained before the finalization, nothing when there was none.
C9_LateAccessor == [](C9_LateState) /\ [][C9_LateStep]_vars

\* after the finalization the accessor returned the socket obtained before
C9_Witness ==
  \E r \in Requests :
    /\ ctx[r].acc.late
    /\ ctx[r].socket # 0
    /\ ctx[r].acc.ret = ctx[r].socket

\* what was returned: the handshake after an upgrade, the facet's body and
\* status otherwise
C10_ReturnState ==
  \A r \in Requests :
    ctx[r].pc = "done" =>
      /\ ctx[r].upgrades > 0 => ctx[r].returned = Handshake
      /\ ctx[r].upgrades = 0 =>
           /\ ctx[r].returned.kind = "http"
           /\ ctx[r].returned.body = ctx[r].res.body
           /\ ctx[r].returned.status = ctx[r].res.status

\* the step that sets sent returns the handshake or the response built from
\* the facet it freezes
C10_ReturnStep ==
  \A r \in Requests :
    (~ctx[r].res.sent /\ ctx'[r].res.sent) =>
      ctx'[r].returned =
        IF ctx'[r].upgrades > 0 THEN Handshake ELSE Response(ctx'[r].res)

\* C10: the response returned for a request is the upgrade handshake
\* response when Deno.upgradeWebSocket was called while the request was
\* handled, and otherwise the response built from the body, status and
\* headers of the response facet as it is frozen.
C10_UpgradeReplacesResponse ==
  [](C10_ReturnState) /\ [][C10_ReturnStep]_vars

\* a handler upgraded and set a status; the handshake response was returned
C10_Witness ==
  \E r \in Requests :
    /\ ctx[r].pc = "done"
    /\ ctx[r].upgrades = 1
    /\ ctx[r].res.status = 403
    /\ ctx[r].returned = Handshake

\* the sockets of a Set, as a set
Members(channel) == {channel[i] : i \in 1..Len(channel)}

\* a broadcast called send once on each member of the channel as it was at
\* that moment and on no other socket; with no such channel the members are
\* none
C11_FanOutState ==
  \A r \in DOMAIN ctx :
    ctx[r].cast.called =>
      /\ Len(ctx[r].cast.sends) = Len(ctx[r].cast.members)
      /\ Members(ctx[r].cast.sends) = Members(ctx[r].cast.members)

\* a step that broadcasts leaves every channel set as it is
C11_FanOutStep ==
  (\E r \in DOMAIN ctx : ctx'[r].cast # ctx[r].cast)
    => activeSocketConnections' = activeSocketConnections

\* C11: broadcast from a context whose channel name is c calls send exactly
\* once on every socket that is a member of channel c at that moment and on
\* no other socket, sends nothing when there is no channel c, and changes
\* no channel membership.
C11_BroadcastFanOut == [](C11_FanOutState) /\ [][C11_FanOutStep]_vars

\* an entity tag with a leading weakness marker "W/" left out
WithoutWeakMarker(tag) ==
  IF Len(tag) >= 2 /\ tag[1] = "W" /\ tag[2] = "/"
  THEN [i \in 1..(Len(tag) - 2) |-> tag[i + 2]]
  ELSE tag

\* the if-none-match header of the request names the etag of the file
Validates ==
  /\ reply.ifNoneMatch.present
  /\ WithoutWeakMarker(reply.ifNoneMatch.value)
       = WithoutWeakMarker(indexed.etag)

\* 304 without a body when the header validates, 200 with the content and
\* the etag otherwise
ConditionalReply ==
  /\ Validates =>
       /\ reply.response.status = 304
       /\ reply.response.body = "none"
  /\ ~Validates =>
       /\ reply.response.status = 200
       /\ reply.response.body = "content"
       /\ reply.response.headers.etag = indexed.etag

\* the request carries a cache id: the parameter is there and not empty
CarriesCacheId == reply.url.cacheId.present /\ reply.url.cacheId.value # ""

\* C12 as claimed: whatever the cache id parameter is (absent, the current
\* build id, or another one), a GET whose if-none-match names the etag of
\* the asset, a leading W/ ignored on both, gets 304 and no body, and any
\* other GET gets 200, the asset and its etag.
C12_ConditionalWhateverCacheId == reply.called => ConditionalReply

\* C12 as amended: the same for a GET without cache id or with the cache id
\* of the current build; a GET with another cache id is redirected and the
\* etag is not looked at.
C12_ConditionalRequest ==
  reply.called =>
    IF CarriesCacheId /\ reply.url.cacheId.value # BUILD_ID
    THEN /\ reply.response.status = 302
         /\ reply.response.body = "none"
    ELSE ConditionalReply

\* the cache id of the build, a weak if-none-match for a strong etag: 304
C12_Witness ==
  /\ reply.called
  /\ reply.url.cacheId = Param(BUILD_ID)
  /\ reply.ifNoneMatch.present
  /\ reply.ifNoneMatch.value = <<"W", "/">> \o indexed.etag
  /\ reply.response.status = 304
  /\ reply.response.body = "none"

\* C13 as claimed: a GET with a cache id parameter whose value is not the
\* current build id is answered by a 3xx redirect to the same path without
\* the parameter and never by the asset; a GET with the current build id is
\* not redirected and carries the immutable cache-control header; a GET
\* without the parameter is not redirected and carries no cache-control
\* header.
C13_AnyOtherValueRedirects ==
  reply.called =>
    LET res == reply.response
        cacheId == reply.url.cacheId
    IN  /\ (cacheId.present /\ cacheId.value # BUILD_ID) =>
             /\ res.status \in 300..399
             /\ res.headers.location =
                  Url(indexed.pathname, NoParam, reply.url.other)
             /\ res.body = "none"
        /\ (cacheId.present /\ cacheId.value = BUILD_ID) =>
             /\ res.status \in {200, 304}
             /\ res.headers.location = NoUrl
             /\ res.headers.cacheControl
                  = "public, max-age=31536000, immutable"
        /\ ~cacheId.present =>
             /\ res.status \in {200, 304}
             /\ res.headers.location = NoUrl
             /\ res.headers.cacheControl = ""

\* C13 as amended: the same, a cache id parameter with an empty value
\* counting as no cache id: a GET with a non-empty cache id that is not the
\* current build id is answered by a 3xx redirect to the same path without
\* the cache id parameter (the other parameters stay) and never by the
\* asset; a GET with the current build id is not redirected and carries
\* the immutable cache-control header; a GET without a cache id or with an
\* empty one is not redirected and carries no cache-control header.
C13_CacheIdProtocol ==
  reply.called =>
    LET res == reply.response
        stale == CarriesCacheId /\ reply.url.cacheId.value # BUILD_ID
        current == CarriesCacheId /\ reply.url.cacheId.value = BUILD_ID
    IN  /\ stale =>
             /\ res.status \in 300..399
             /\ res.headers.location =
                  Url(indexed.pathname, NoParam, reply.url.other)
             /\ res.body = "none"
        /\ current =>
             /\ res.status \in {200, 304}
             /\ res.headers.location = NoUrl
             /\ res.headers.cacheControl
                  = "public, max-age=31536000, immutable"
        /\ ~CarriesCacheId =>
             /\ res.status \in {200, 304}
             /\ res.headers.location = NoUrl
             /\ res.headers.cacheControl = ""

\* a stale cache id next to another parameter: redirected, the other
\* parameter kept
C13_Witness ==
  /\ reply.called
  /\ reply.url.cacheId = Param("OLD")
  /\ reply.url.other
  /\ reply.response.status = 302
  /\ reply.response.headers.location.other
  /\ ~reply.response.headers.location.cacheId.present

\* what the claim says a segment of a route path compiles to
ClaimedSegment(seg) ==
  IF Len(seg) > 5 /\ SubSeq(seg, 1, 4) = <<"[", ".", ".", ".">>
     /\ seg[Len(seg)] = "]"
  THEN <<":">> \o SubSeq(seg, 5, Len(seg) - 1) \o <<"*">>
  ELSE IF Len(seg) > 2 /\ seg[1] = "[" /\ seg[Len(seg)] = "]"
  THEN <<":">> \o SubSeq(seg, 2, Len(seg) - 1)
  ELSE seg

\* what the claim says a route path compiles to: its segments compiled, a
\* final "index" left out
ClaimedPattern(segs) ==
  LET kept == IF Len(segs) > 0 /\ segs[Len(segs)] = <<"index">>
              THEN SubSeq(segs, 1, Len(segs) - 1)
              ELSE segs
  IN  IF Len(kept) = 0 THEN <<"/">>
      ELSE PathOf([i \in 1..Len(kept) |-> ClaimedSegment(kept[i])])

IsRest(seg) == ClaimedSegment(seg) # seg /\ seg[2] = "."
IsNamed(seg) == ClaimedSegment(seg) # seg /\ seg[2] # "."

\* the route paths the claim is about: literal and "[name]" segments, with
\* "[...name]" and "index" as last segment only
ClaimedPath(segs) ==
  \A i \in 1..Len(segs) :
    /\ segs[i][1] # "_"
    /\ (IsRest(segs[i]) \/ segs[i] = <<"index">>) => i = Len(segs)

\* a request path for a route path: "b" in the place of each parameter
RequestPathFor(segs) ==
  LET kept == IF Len(segs) > 0 /\ segs[Len(segs)] = <<"index">>
              THEN SubSeq(segs, 1, Len(segs) - 1)
              ELSE segs
  IN  PathOf([i \in 1..Len(kept) |->
                IF ClaimedSegment(kept[i]) # kept[i] THEN <<"b">>
                ELSE kept[i]])

\* C14: a route path of literal and parameter segments compiles to the
\* pattern in which each "[name]" is ":name", a final "[...name]" is
\* ":name*", a final "index" is left out and literal segments are kept;
\* a request path matches the pattern of a path with one "[name]" and gives
\* the parameter its segment.
C14_PatternCompilation ==
  (/\ indexed.kind = "route"
   /\ ~indexed.threw
   /\ ~Has(indexed.keys, "pattern"))
  => \A segs \in SeqsUpTo(RouteSegments, MaxDepth) \ {<<>>} :
       (/\ indexed.pathname = PathOf(segs) \o <<".", "md">>
        /\ ClaimedPath(segs))
       => \A i \in 1..Len(hooks) :
            /\ hooks[i].pattern = ClaimedPattern(segs)
            /\ (/\ Cardinality({j \in 1..Len(segs) : IsNamed(segs[j])}) = 1
                /\ Cardinality({j \in 1..Len(segs) : IsRest(segs[j])}) = 0)
               => LET href == Href(RequestPathFor(segs), <<>>)
                  IN  /\ PatternTest(hooks[i].pattern, href)
                      /\ PatternGroups(hooks[i].pattern, href)
                           = [n \in {<<"a">>} |-> <<"b">>]

\* sent is true exactly when the connection handler has returned, and then
\* a response has been returned; before that none has
C15_FinalizedState ==
  \A r \in Requests :
    /\ ctx[r].res.sent <=> ctx[r].pc = "done"
    /\ ctx[r].pc = "done" <=> ctx[r].returned # NoResponse

\* sent never returns to false and the response returned is never replaced
C15_FinalizedStep ==
  \A r \in Requests :
    /\ ctx[r].res.sent => ctx'[r].res.sent
    /\ ctx[r].returned # NoResponse => ctx'[r].returned = ctx[r].returned

\* a request whose handler or middleware was invoked is finalized
C15_Finalizes ==
  \A r \in Requests :
    (ctx[r].pc \in {"handler", "mw"}) ~> (ctx[r].pc = "done")

\* C15: for every request, on every path (unrecognised method, routing
\* miss, handled, handler or middleware error), provided the callbacks
\* invoked return, the dispatch reaches the finalization: sent goes from
\* false to true once and never back, and one response is returned.
C15_ExactlyOnceFinalization ==
  [](C15_FinalizedState) /\ [][C15_FinalizedStep]_vars /\ C15_Finalizes

\* a request was finalized after its handler threw, with middleware
\* registered that never ran
C15_Witness ==
  \E r \in Requests :
    /\ ctx[r].pc = "done"
    /\ ctx[r].res.sent
    /\ ctx[r].caught
    /\ ctx[r].route = "hit"
    /\ ctx[r].returned.status = 500
    /\ Len(middleware) = 2

\* every socket held is in the channel set its context names and in no
\* other; every member of a channel set is such a socket, once
C16_MembershipState ==
  /\ \A r \in DOMAIN ctx :
       ctx[r].socket # 0 =>
         /\ ctx[r].channel \in DOMAIN activeSocketConnections
         /\ Has(activeSocketConnections[ctx[r].channel], ctx[r].socket)
         /\ \A n \in DOMAIN activeSocketConnections \ {ctx[r].channel} :
              ~Has(activeSocketConnections[n], ctx[r].socket)
         /\ \A q \in DOMAIN ctx \ {r} : ctx[q].socket # ctx[r].socket
  /\ \A n \in DOMAIN activeSocketConnections :
       /\ Cardinality(Members(activeSocketConnections[n]))
            = Len(activeSocketConnections[n])
       /\ \A s \in Members(activeSocketConnections[n]) :
            \E r \in DOMAIN ctx : ctx[r].socket = s /\ ctx[r].channel = n

\* a context starts in the channel named by the empty string, and a step
\* that changes the channel name of a context with a socket moves the socket
\* from the set of the old name to the set of the new one
C16_MembershipStep ==
  \A r \in DOMAIN ctx :
    /\ ctx[r].pc = "idle" => ctx'[r].channel = ""
    /\ (ctx'[r].socket # 0 /\ ctx'[r].channel # ctx[r].channel) =>
         /\ Has(activeSocketConnections'[ctx'[r].channel], ctx'[r].socket)
         /\ ctx[r].channel \in DOMAIN activeSocketConnections =>
              ~Has(activeSocketConnections'[ctx[r].channel], ctx'[r].socket)

\* C16: in every reachable state of every interleaving of concurrent
\* requests that call the socket accessor, join and broadcast, each socket
\* is a member of exactly the channel set named by its context's channel
\* name (the empty string until the first join), and join moves it from the
\* old set to the new one in one step: no state has it in no set or in two.
C16_SingleChannelMembership ==
  [](C16_MembershipState) /\ [][C16_MembershipStep]_vars

\* two sockets; one joined "room1" and then "room2", the other never joined
C16_Witness ==
  \E r \in DOMAIN ctx, q \in DOMAIN ctx :
    /\ r # q
    /\ ctx[r].socket # 0
    /\ ctx[q].socket # 0
    /\ ctx[q].channel = ""
    /\ ctx[r].channel = "room2"
    /\ "room1" \in DOMAIN activeSocketConnections
    /\ activeSocketConnections["room1"] = <<>>
    /\ activeSocketConnections["room2"] = <<ctx[r].socket>>

\* no channel set holds a closed socket
C17_PrunedState ==
  \A r \in DOMAIN ctx :
    ctx[r].readyState = "closed" =>
      \A n \in DOMAIN activeSocketConnections :
        ~Has(activeSocketConnections[n], ctx[r].socket)

\* no broadcast calls send on a closed socket
C17_PrunedStep ==
  \A r \in DOMAIN ctx :
    ctx'[r].cast # ctx[r].cast =>
      \A s \in Members(ctx'[r].cast.sends) : ReadyState(s) # "closed"

\* C17: when a socket that was added to the channel registry closes it is
\* removed from its channel set: in every later state no channel set holds
\* a closed socket and no later broadcast calls send on it.
C17_PruningOnClose == [](C17_PrunedState) /\ [][C17_PrunedStep]_vars

\* the role a file name gives a file of ./routes: "_data.*" is data,
\* "_middleware.*" is middleware, "_<status>.*" with the number of an HTTP
\* error status is an error handler, any other file is a page
RoleOf(pathname) ==
  LET base == BaseName(pathname)
      digits == DigitsFrom(base, 2)
  IN  IF Len(base) > 3 /\ SubSeq(base, 1, 3) = <<"_", "data", ".">>
      THEN "data"
      ELSE IF Len(base) > 3 /\ SubSeq(base, 1, 3) = <<"_", "middleware", ".">>
      THEN "middleware"
      ELSE IF /\ base[1] = "_"
              /\ Len(digits) > 0
              /\ Len(base) > Len(digits) + 2
              /\ base[Len(digits) + 2] = "."
              /\ isErrorStatus(ToNumber(digits))
      THEN "error"
      ELSE "page"

\* C18: of the files of ./routes, "_data.*" is registered as data,
\* "_middleware.*" as middleware and "_<status>.*" with an HTTP error
\* status as the error handler of that status, never as a page, also when
\* the ignore pattern matches the file; any other file the ignore pattern
\* matches registers nothing.
C18_RolesAndSkipPolicy ==
  (indexed.kind = "route" /\ ~indexed.threw) =>
    LET role == RoleOf(indexed.pathname)
    IN  /\ role = "data" =>
             Len(hooks) = 1 /\ hooks[1].hook = "useData"
        /\ role = "middleware" =>
             /\ Len(hooks) = 1
             /\ hooks[1].hook = "useMiddleware"
             /\ hooks[1].handler = "exports"
        /\ role = "error" =>
             /\ Len(hooks) = 1
             /\ hooks[1].hook = "useErrorHandler"
             /\ hooks[1].status
                  = ToNumber(DigitsFrom(BaseName(indexed.pathname), 2))
        /\ (role = "page" /\ indexed.ignored) => hooks = <<>>

\* the entries registered for the request method m
EntriesFor(m) ==
  {i \in 1..Len(hooks) :
     hooks[i].hook = "useMiddleware" /\ hooks[i].method = m}

\* the file indexed is a page that was not skipped
PageIndexed ==
  /\ indexed.kind = "route"
  /\ ~indexed.threw
  /\ RoleOf(indexed.pathname) = "page"
  /\ ~indexed.ignored

\* the GET entry of the page: one, for the pattern of the file, running
\* the exported GET when there is one and rendering the page otherwise
GetEntry ==
  /\ Cardinality(EntriesFor("GET")) = 1
  /\ \A i \in EntriesFor("GET") :
       /\ hooks[i].pattern = PatternOf(indexed)
       /\ hooks[i].handler = "page"
       /\ hooks[i].calls =
            IF Has(indexed.keys, "GET") THEN "GET"
            ELSE IF Has(indexed.keys, "handler") THEN "handler"
            ELSE IF Has(indexed.keys, "default") THEN "default"
            ELSE "body"

\* every other exported method has its own entry with initialisesResponse,
\* and default and handler are neither entries nor page data
OtherExports ==
  /\ \A k \in {"POST", "PUT", "PATCH", "DELETE"} :
       IF Has(indexed.keys, k)
       THEN /\ Cardinality(EntriesFor(k)) = 1
            /\ \A i \in EntriesFor(k) :
                 /\ hooks[i].initialisesResponse
                 /\ hooks[i].handler = "export"
                 /\ hooks[i].calls = k
                 /\ hooks[i].pattern = PatternOf(indexed)
       ELSE EntriesFor(k) = {}
  /\ EntriesFor("default") = {}
  /\ EntriesFor("handler") = {}
  /\ \A i \in 1..Len(hooks) :
       ~Has(hooks[i].keys, "default") /\ ~Has(hooks[i].keys, "handler")

\* C19 as claimed: every page that is not skipped gets a GET entry for its
\* pattern, the exported GET or a default handler that renders the page,
\* whatever else it exports; every other exported method gets its own
\* entry with initialisesResponse true; default and handler are neither
\* entries nor page data.
C19_GetForEveryPage == PageIndexed => GetEntry /\ OtherExports

\* C19 as amended: a page that is not skipped gets the GET entry when it
\* exports GET, default or handler or when it has no module in the
\* manifest; the module of a page that exports none of the three gets no
\* GET entry. The rest is as claimed.
C19_DefaultGetHandler ==
  PageIndexed =>
    /\ IF \/ Has(indexed.keys, "GET")
          \/ Has(indexed.keys, "default")
          \/ Has(indexed.keys, "handler")
          \/ ~indexed.module
       THEN GetEntry
       ELSE EntriesFor("GET") = {}
    /\ OtherExports

\* a module that exports default and POST: a GET entry that renders with
\* default, and the POST entry
C19_Witness ==
  /\ PageIndexed
  /\ indexed.module
  /\ indexed.keys = <<"POST", "default">>
  /\ Cardinality(EntriesFor("GET")) = 1
  /\ Cardinality(EntriesFor("POST")) = 1
  /\ \A i \in EntriesFor("GET") : hooks[i].calls = "default"

\* the pattern has a repeated parameter before its last segment
RestNotLast(pattern) ==
  LET segs == Segments(pattern)
  IN  \E i \in 1..(Len(segs) - 1) :
        IsGroup(segs[i]) /\ segs[i][Len(segs[i])] = "*"

\* C20: indexing a route path with "[...name]" before its last segment
\* fails with an error and registers nothing for the file, so that no
\* pattern registered has a repeated parameter before its last segment.
C20_CatchAllPlacement ==
  (indexed.kind = "route" /\ ~Skipped(indexed)
     /\ ~Has(indexed.keys, "pattern")) =>
    /\ (\E segs \in SeqsUpTo(RouteSegments, MaxDepth) \ {<<>>} :
          /\ indexed.pathname = PathOf(segs) \o <<".", "md">>
          /\ \E i \in 1..(Len(segs) - 1) : IsRest(segs[i]))
       => indexed.threw /\ hooks = <<>>
    /\ \A i \in 1..Len(hooks) : ~RestNotLast(hooks[i].pattern)

====
